---- MODULE Spec2Model ----
(***************************************************************************)
(* A model of cloudmetrics_pipeline/find_scenes.py and masks.py: one run   *)
(* of produce_scene_ids over a data directory.  The run discovers the      *)
(* source files, extracts the scenes of every file (writing one scene      *)
(* file per scene), collects the scene ids in a NoReplaceDict and finally  *)
(* dumps the mapping to scenes/scene_ids.yml.  Python exceptions are       *)
(* modelled by the variable error and the control state "raised".          *)
(***************************************************************************)
EXTENDS Integers, Sequences, FiniteSets, TLC

VARIABLES
    dir,                    \* the source files of data_path: file -> content
    fs,                     \* the file system under data_path/scenes
    fs0,                    \* fs as it was before the run
    writes,                 \* the files this run has written, in order
    pc,                     \* position of the run
    error,                  \* the exception that ended the run, or None
    filepaths_by_filetype,  \* make_scenes: filetype -> list of paths
    scenes,                 \* make_scenes: the aggregate NoReplaceDict
    i,                      \* make_scenes: position in the nested file loops
    nc                      \* the running _make_netcdf_scenes call

vars == <<dir, fs, fs0, writes, pc, error, filepaths_by_filetype, scenes, i, nc>>

(***************************************************************************)
(* Bounds of the model.                                                    *)
(***************************************************************************)
MaxFiles == 2       \* files in the data directory
MaxWidth == 1       \* pixels of an image
MaxLen == 2         \* values of a coordinate

(***************************************************************************)
(* Module constants of find_scenes.py.                                     *)
(***************************************************************************)
FILETYPES == [image |-> <<"png", "jpg", "jpeg">>, netcdf |-> <<"nc", "nc4">>]

\* the order in which a dict built from the literal is iterated
FILETYPE_ORDER == <<"image", "netcdf">>

\* "%Y%d%m%H%M" as its sequence of directives
DATETIME_FORMAT_ymd == <<"Y", "m", "d", "H", "M">>
DATETIME_FORMAT == <<"Y", "d", "m", "H", "M">>

SCENE_PATH == "scenes"

SCENE_DB_FILENAME == "scene_ids.yml"

(***************************************************************************)
(* Python values.  A pathlib.Path is its sequence of parts; the paths that *)
(* glob returns also carry the stem and suffix of their last part.  A      *)
(* value that may be a str or a Path carries its type.                     *)
(***************************************************************************)
None == [type |-> "NoneType"]

PyStr(s) == [type |-> "str", val |-> s]

Path(parts) == [type |-> "Path", parts |-> parts]

data_path == Path(<<"data">>)

\* Path.parent
parent(p) == Path(SubSeq(p.parts, 1, Len(p.parts) - 1))

\* Path.__truediv__ with a str
Div(p, s) == Path(p.parts \o <<s>>)

RECURSIVE Join(_)
Join(parts) ==
    IF Len(parts) = 0 THEN "."
    ELSE IF Len(parts) = 1 THEN parts[1]
    ELSE Join(SubSeq(parts, 1, Len(parts) - 1)) \o "/" \o parts[Len(parts)]

\* str(Path)
str(p) == Join(p.parts)

\* the path of a directory entry f = [stem, ext] of data_path
FilePath(f) ==
    [type |-> "Path", parts |-> data_path.parts \o <<f.stem \o "." \o f.ext>>,
     stem |-> f.stem, suffix |-> f.ext]

\* the directory entry a globbed path names
Entry(p) == [stem |-> p.stem, ext |-> p.suffix]

\* obj.parent: a Path has the attribute, a str has not
HasParent(obj) == obj.type = "Path"

(***************************************************************************)
(* NoReplaceDict (find_scenes.py 15-27).  A dict is a function from its    *)
(* keys.  __setitem__ refuses a key the dict holds; update is the method   *)
(* inherited from dict, which does not go through __setitem__.             *)
(***************************************************************************)
EmptyDict == [k \in {} |-> None]

\* `key in self`, the test of __setitem__
KeyExists(d, key) == key \in DOMAIN d

\* dict.__setitem__(self, key, val), reached when the key is new
NoReplaceDict_setitem(d, key, val) == (key :> val) @@ d

\* dict.update(self, other): the entries of other replace those of self
update(d, other) == other @@ d

(***************************************************************************)
(* strftime on the time coordinate (find_scenes.py 58).                    *)
(***************************************************************************)
RECURSIVE Digits(_, _)
\* n in decimal, zero-padded to width w
Digits(n, w) == IF w = 0 THEN "" ELSE Digits(n \div 10, w - 1) \o ToString(n % 10)

\* one directive of a format string
Directive(c, t) ==
    CASE c = "Y" -> Digits(t.year, 4)
      [] c = "m" -> Digits(t.month, 2)
      [] c = "d" -> Digits(t.day, 2)
      [] c = "H" -> Digits(t.hour, 2)
      [] c = "M" -> Digits(t.minute, 2)

RECURSIVE strftime(_, _)
strftime(t, fmt) ==
    IF Len(fmt) = 0 THEN "" ELSE Directive(fmt[1], t) \o strftime(t, Tail(fmt))

(***************************************************************************)
(* The greyscale mask (find_scenes.py 37-38, masks.py 10-11).  A pixel is  *)
(* <<R, G, B>> with 8-bit channels; rgb2gray scales the channels to [0, 1] *)
(* and weighs them 0.2125, 0.7154, 0.0721.  Intensities are kept as exact  *)
(* fractions.                                                              *)
(***************************************************************************)
greyscale_threshold == [num |-> 2, den |-> 10]

rgb2gray(p) == [num |-> 2125 * p[1] + 7154 * p[2] + 721 * p[3], den |-> 255 * 10000]

\* a >= b on fractions: the comparison a slip of the operator would give
GreaterEq(a, b) == a.num * b.den >= b.num * a.den

\* a > b on fractions
Greater(a, b) == a.num * b.den > b.num * a.den

\* image_grey > greyscale_threshold, elementwise
cloud_mask(image, threshold) ==
    [k \in 1..Len(image) |-> Greater(rgb2gray(image[k]), threshold)]

\* masks.rgb_greyscale_mask
rgb_greyscale_mask(da_scene, threshold) ==
    [kind |-> "DataArray", values |-> cloud_mask(da_scene, threshold)]

(***************************************************************************)
(* The file system: the directories that exist and the files, by path.     *)
(***************************************************************************)
\* Path.mkdir(exist_ok=True, parents=True)
mkdir(f, p) == [f EXCEPT !.dirs = @ \cup {str(p)}]

\* DataArray.to_netcdf that writes nothing: a slip that loses the scene file
to_netcdf_nowrite(f, p, da) == f

\* DataArray.to_netcdf(path): creates or overwrites the file
to_netcdf(f, p, da) == [f EXCEPT !.files = (str(p) :> da) @@ @]

\* yaml.dump(scenes, default_flow_style=False), block style: per entry the
\* line "key: value" for a str value; for a Path value the line
\* "key: !!python/object/apply:pathlib.PosixPath" followed by one "- part"
\* line per path component.  The entries are emitted sorted by key, so the
\* set of the entries' line blocks is the document.
yaml_dump(d) ==
    [kind |-> "yaml",
     entries |-> {IF d[k].type = "str"
                  THEN <<k \o ": " \o d[k].val>>
                  ELSE <<k \o ": !!python/object/apply:pathlib.PosixPath">>
                       \o [n \in 1..Len(d[k].parts) |-> "- " \o d[k].parts[n]]
                  : k \in DOMAIN d}]

ManifestPath == Div(Div(data_path, SCENE_PATH), SCENE_DB_FILENAME)

(***************************************************************************)
(* The scenes of an array-data file (find_scenes.py 49-68).                *)
(***************************************************************************)
\* xr.open_dataarray(filepath); `"time" in da or "time" in da.coords` is
\* decided by the coordinates
open_dataarray(filepath) ==
    [kind |-> "DataArray", source |-> str(filepath), coords |-> dir[Entry(filepath)].coords]

\* da.sel(dim=value)
sel(da, dim, value) == [kind |-> "DataArray", source |-> da.source, at |-> (dim :> value)]

\* what the generator yields, in order, or that it raises NotImplementedError
_individual_scenes_in_file(filepath, da) ==
    IF "scene_id" \in DOMAIN da.coords
    THEN [raises |-> FALSE,
          items |-> [k \in 1..Len(da.coords["scene_id"]) |->
                        <<da.coords["scene_id"][k],
                          sel(da, "scene_id", da.coords["scene_id"][k])>>]]
    ELSE IF "time" \in DOMAIN da.coords
    THEN [raises |-> FALSE,
          items |-> [k \in 1..Len(da.coords["time"]) |->
                        <<filepath.stem \o "__" \o strftime(da.coords["time"][k], DATETIME_FORMAT),
                          sel(da, "time", da.coords["time"][k])>>]]
    ELSE [raises |-> TRUE, items |-> <<>>]

(***************************************************************************)
(* The inputs: the data directories the model runs over.                   *)
(***************************************************************************)
RECURSIVE Perms(_)
\* the orders in which a directory listing may yield the set S
Perms(S) ==
    IF S = {} THEN {<<>>}
    ELSE UNION {{<<x>> \o q : q \in Perms(S \ {x})} : x \in S}

\* the sequences without repetition over S of length lo..MaxLen
Coord(S, lo) == UNION {Perms(T) : T \in {U \in SUBSET S : Cardinality(U) \in lo..MaxLen}}

\* a grey pixel of intensity 0.2, a red one (0.2125), a blue one (0.0721)
Pixels == {<<51, 51, 51>>, <<255, 0, 0>>, <<0, 0, 255>>}

T1 == [year |-> 2021, month |-> 3, day |-> 4, hour |-> 5, minute |-> 6, second |-> 0]
T2 == [year |-> 2021, month |-> 3, day |-> 4, hour |-> 5, minute |-> 6, second |-> 30]
Times == {T1, T2}

SceneIdValues == {"x", "y"}

Images == {[kind |-> "image", pixels |-> px] : px \in UNION {[1..n -> Pixels] : n \in 1..MaxWidth}}

Datasets ==
    {[kind |-> "netcdf", coords |-> ("scene_id" :> v)] : v \in Coord(SceneIdValues, 0)}
    \cup {[kind |-> "netcdf", coords |-> ("scene_id" :> <<"x">>) @@ ("time" :> <<T1>>)]}
    \cup {[kind |-> "netcdf", coords |-> ("time" :> v)] : v \in Coord(Times, 0)}
    \cup {[kind |-> "netcdf", coords |-> EmptyDict]}

Others == {[kind |-> "other"]}

FileNames ==
    {[stem |-> "x", ext |-> "png"], [stem |-> "y", ext |-> "png"],
     [stem |-> "x", ext |-> "jpg"], [stem |-> "x", ext |-> "jpeg"],
     [stem |-> "x", ext |-> "nc"], [stem |-> "y", ext |-> "nc"],
     [stem |-> "x", ext |-> "nc4"], [stem |-> "x", ext |-> "txt"]}

Range(q) == {q[k] : k \in DOMAIN q}

ContentsFor(f) ==
    IF f.ext \in Range(FILETYPES.image) THEN Images
    ELSE IF f.ext \in Range(FILETYPES.netcdf) THEN Datasets
    ELSE Others

Directories ==
    UNION {{d \in [ns -> Images \cup Datasets \cup Others] : \A f \in ns : d[f] \in ContentsFor(f)}
           : ns \in {n \in SUBSET FileNames : Cardinality(n) <= MaxFiles}}

NoDir == [dirs |-> {}, files |-> EmptyDict]

\* a scenes/ directory left by an earlier run
OldDir ==
    [dirs |-> {str(Div(data_path, SCENE_PATH))},
     files |-> (str(ManifestPath) :> yaml_dump("x" :> PyStr("data/scenes/x.nc")))
               @@ ("data/scenes/x.nc" :> [kind |-> "DataArray", values |-> <<FALSE>>])]

Init ==
    /\ dir \in Directories
    /\ fs \in {NoDir, OldDir}
    /\ fs0 = fs
    /\ writes = <<>>
    /\ pc = "start"
    /\ error = None
    /\ filepaths_by_filetype = EmptyDict
    /\ scenes = EmptyDict
    /\ i = 1
    /\ nc = None

(***************************************************************************)
(* make_scenes (find_scenes.py 80-121).                                    *)
(***************************************************************************)
\* data_path.glob("*.<file_ext>"): the entries with that extension
glob(file_ext) == {FilePath(f) : f \in {g \in DOMAIN dir : g.ext = file_ext}}

RECURSIVE Listings(_)
\* the lists the extensions of one filetype can add up to, extension by
\* extension, each glob in the order the directory listing yields
Listings(extensions) ==
    IF Len(extensions) = 0 THEN {<<>>}
    ELSE {a \o b : a \in Perms(glob(extensions[1])), b \in Listings(Tail(extensions))}

\* the check that never finds the directory empty: a slip in the test
no_source_files_never(fbt) == FALSE

\* len(filepaths_by_filetype) == 0
no_source_files(fbt) == DOMAIN fbt = {}

RECURSIVE Items(_, _)
\* the (filetype, filepath) pairs in the order the nested loops visit them
Items(fbt, order) ==
    IF Len(order) = 0 THEN <<>>
    ELSE (IF order[1] \in DOMAIN fbt
          THEN [k \in 1..Len(fbt[order[1]]) |->
                   [filetype |-> order[1], filepath |-> fbt[order[1]][k]]]
          ELSE <<>>) \o Items(fbt, Tail(order))

\* (line 114, the NotImplementedError for a filetype other than the two of
\* FILETYPES, is not reachable: the keys come from FILETYPES)
Work == Items(filepaths_by_filetype, FILETYPE_ORDER)

Raise(type, line) ==
    /\ error' = [type |-> type, line |-> line]
    /\ pc' = "raised"

\* lines 92-103: discovery, the No-Input check, the empty aggregate dict
Discover ==
    /\ pc = "start"
    /\ \E im \in Listings(FILETYPES.image), ncf \in Listings(FILETYPES.netcdf) :
         LET lists == [image |-> im, netcdf |-> ncf]
             fbt == [t \in {u \in DOMAIN FILETYPES : Len(lists[u]) > 0} |-> lists[t]]
         IN /\ filepaths_by_filetype' = fbt
            /\ IF no_source_files(fbt)
               THEN Raise("FileNotFoundError", 101)
               ELSE pc' = "loop" /\ error' = error
    /\ scenes' = EmptyDict
    /\ i' = 1
    /\ UNCHANGED <<dir, fs, fs0, writes, nc>>

\* the path of the scene file of scene_id beside the source file
scene_filepath(filepath, scene_id) == Div(Div(parent(filepath), SCENE_PATH), scene_id \o ".nc")

\* lines 107-109: _make_image_scene on the next image, then the insert
ImageScene ==
    /\ pc = "loop"
    /\ i <= Len(Work)
    /\ Work[i].filetype = "image"
    /\ LET filepath == Work[i].filepath
           scene_id == filepath.stem
           image == dir[Entry(filepath)].pixels
           da == [kind |-> "DataArray", values |-> cloud_mask(image, greyscale_threshold)]
           filepath_scene == scene_filepath(filepath, scene_id)
       IN /\ fs' = to_netcdf(mkdir(fs, parent(filepath_scene)), filepath_scene, da)
          /\ writes' = Append(writes, [path |-> str(filepath_scene), source |-> str(filepath)])
          /\ IF KeyExists(scenes, scene_id)
             THEN Raise("KeyExistsException", 26) /\ UNCHANGED <<scenes, i>>
             ELSE /\ scenes' = NoReplaceDict_setitem(scenes, scene_id, filepath_scene)
                  /\ i' = i + 1
                  /\ UNCHANGED <<pc, error>>
    /\ UNCHANGED <<dir, fs0, filepaths_by_filetype, nc>>

\* lines 47-49: _make_netcdf_scenes is entered for the next array-data file
NetcdfOpen ==
    /\ pc = "loop"
    /\ i <= Len(Work)
    /\ Work[i].filetype = "netcdf"
    /\ nc' = [filepath |-> Work[i].filepath, da |-> open_dataarray(Work[i].filepath),
              scenes |-> EmptyDict, k |-> 0, cur |-> <<>>]
    /\ pc' = "nc_next"
    /\ UNCHANGED <<dir, fs, fs0, writes, error, filepaths_by_filetype, scenes, i>>

\* line 70: the for statement resumes the generator; when it is exhausted
\* the call returns (line 77) and make_scenes merges the result (line 112)
NetcdfNext ==
    /\ pc = "nc_next"
    /\ LET gen == _individual_scenes_in_file(nc.filepath, nc.da)
       IN IF gen.raises
          THEN Raise("NotImplementedError", 65) /\ UNCHANGED <<nc, scenes, i>>
          ELSE IF nc.k < Len(gen.items)
          THEN /\ nc' = [nc EXCEPT !.k = @ + 1, !.cur = gen.items[nc.k + 1]]
               /\ pc' = "nc_body"
               /\ UNCHANGED <<error, scenes, i>>
          ELSE /\ scenes' = update(scenes, nc.scenes)
               /\ i' = i + 1
               /\ pc' = "loop"
               /\ nc' = None
               /\ error' = error
    /\ UNCHANGED <<dir, fs, fs0, writes, filepaths_by_filetype>>

\* lines 71-75: the loop body for the scene the generator yielded
NetcdfBody ==
    /\ pc = "nc_body"
    /\ LET scene_id == nc.cur[1]
           da_scene == nc.cur[2]
           filename_scene == PyStr(scene_id \o ".nc")
           filepath_scene == Div(Div(parent(nc.filepath), SCENE_PATH), filename_scene.val)
       IN IF ~HasParent(filename_scene)
          THEN Raise("AttributeError", 73) /\ UNCHANGED <<fs, writes, nc>>
          ELSE /\ fs' = to_netcdf(mkdir(fs, parent(filename_scene)), filepath_scene, da_scene)
               /\ writes' = Append(writes, [path |-> str(filepath_scene),
                                            source |-> str(nc.filepath)])
               /\ IF KeyExists(nc.scenes, scene_id)
                  THEN Raise("KeyExistsException", 26) /\ nc' = nc
                  ELSE /\ nc' = [nc EXCEPT !.scenes =
                                    NoReplaceDict_setitem(@, scene_id, filepath_scene)]
                       /\ pc' = "nc_next"
                       /\ error' = error
    /\ UNCHANGED <<dir, fs0, filepaths_by_filetype, scenes, i>>

\* lines 116-121: the loops are over; the paths become strings
Return ==
    /\ pc = "loop"
    /\ i > Len(Work)
    /\ scenes' = [scene_id \in DOMAIN scenes |-> PyStr(str(scenes[scene_id]))]
    /\ pc' = "returned"
    /\ UNCHANGED <<dir, fs, fs0, writes, error, filepaths_by_filetype, i, nc>>

(***************************************************************************)
(* produce_scene_ids (find_scenes.py 124-128).                             *)
(***************************************************************************)
\* a run that goes on to the dump although make_scenes raised
make_scenes_returned_or_raised == pc \in {"returned", "raised"}

\* line 125 returned: an exception of make_scenes propagates past the dump
make_scenes_returned == pc = "returned"

\* lines 127-128: open(..., "w") and yaml.dump
Dump ==
    /\ make_scenes_returned
    /\ IF str(parent(ManifestPath)) \notin fs.dirs
       THEN Raise("FileNotFoundError", 127) /\ UNCHANGED <<fs, writes>>
       ELSE /\ fs' = [fs EXCEPT !.files = (str(ManifestPath) :> yaml_dump(scenes)) @@ @]
            /\ writes' = Append(writes, [path |-> str(ManifestPath), source |-> "scenes"])
            /\ pc' = "done"
            /\ error' = error
    /\ UNCHANGED <<dir, fs0, filepaths_by_filetype, scenes, i, nc>>

Next == Discover \/ ImageScene \/ NetcdfOpen \/ NetcdfNext \/ NetcdfBody \/ Return \/ Dump

Spec == Init /\ [][Next]_vars

(***************************************************************************)
(* Vocabulary of the properties.                                           *)
(***************************************************************************)
Terminated == pc \in {"done", "raised"}

Recognized(f) == f.ext \in Range(FILETYPES.image) \cup Range(FILETYPES.netcdf)

IsImage(f) == f.ext \in Range(FILETYPES.image)

IsArrayData(f) == f.ext \in Range(FILETYPES.netcdf)

Sources == {f \in DOMAIN dir : Recognized(f)}

HasCoord(f, c) == c \in DOMAIN dir[f].coords

Unsupported(f) == IsArrayData(f) /\ ~HasCoord(f, "scene_id") /\ ~HasCoord(f, "time")

\* the scene identifiers the source file f derives, in order
DerivedIds(f) ==
    IF IsImage(f) THEN <<f.stem>>
    ELSE LET gen == _individual_scenes_in_file(FilePath(f), open_dataarray(FilePath(f)))
         IN [k \in DOMAIN gen.items |-> gen.items[k][1]]

\* two different source files derive the same scene identifier
Collide(f, g) == f # g /\ Range(DerivedIds(f)) \cap Range(DerivedIds(g)) # {}

\* all derived identifiers of the files in F are pairwise distinct
DistinctIds(F) ==
    /\ \A f \in F, g \in F : ~Collide(f, g)
    /\ \A f \in F : \A j \in DOMAIN DerivedIds(f), k \in DOMAIN DerivedIds(f) :
          j # k => DerivedIds(f)[j] # DerivedIds(f)[k]

\* the scene file path the specification gives the scene scene_id
ScenePathStr(scene_id) == "data/scenes/" \o scene_id \o ".nc"

\* the path a dict value names, be it a Path or a str
Named(v) == IF v.type = "str" THEN v.val ELSE str(v)

WrittenPaths == {writes[k].path : k \in DOMAIN writes}

Absent == [kind |-> "absent"]

FileAt(f, path) == IF path \in DOMAIN f.files THEN f.files[path] ELSE Absent

Manifest(f) == FileAt(f, "data/scenes/scene_ids.yml")

\* the pair is reported rightly: its file exists and this run wrote it
Reported(scene_id, path) ==
    /\ path = ScenePathStr(scene_id)
    /\ path \in DOMAIN fs.files
    /\ path \in WrittenPaths

\* two time values that differ at most in their seconds
SameMinute(t, u) ==
    /\ t.year = u.year /\ t.month = u.month /\ t.day = u.day
    /\ t.hour = u.hour /\ t.minute = u.minute

\* the identifier of the scene of time t of the file <stem>.nc
TimeSceneId(stem, t) ==
    stem \o "__" \o Digits(t.year, 4) \o Digits(t.day, 2) \o Digits(t.month, 2)
         \o Digits(t.hour, 2) \o Digits(t.minute, 2)

\* the coordinates of a file that is sliced by time
TimeOnly(coords) == "scene_id" \notin DOMAIN coords /\ "time" \in DOMAIN coords

\* the intensity 0.2125 R + 0.7154 G + 0.0721 B of an 8-bit pixel exceeds 0.2
Brighter(p) == (2125 * p[1] + 7154 * p[2] + 721 * p[3]) * 10 > 2 * 255 * 10000

\* the writes of this run that come from an image file, and their files
ImageWrites == {k \in DOMAIN writes : \E f \in Sources : IsImage(f) /\ str(FilePath(f)) = writes[k].source}

SourceOf(k) == CHOOSE f \in Sources : str(FilePath(f)) = writes[k].source

(***************************************************************************)
(* C1.  Whenever two different source files of the directory derive the    *)
(* same scene identifier, the run ends by raising                          *)
(* NoReplaceDict.KeyExistsException and never completes.                   *)
(* Violated: an array-data file that yields a scene ends the run with the  *)
(* AttributeError of line 73 before anything is inserted.                  *)
(***************************************************************************)
C1_DuplicateIdRaisesKeyExists ==
    (Terminated /\ \E f \in Sources, g \in Sources : Collide(f, g))
        => (pc = "raised" /\ error.type = "KeyExistsException")

(***************************************************************************)
(* C2.  A run that ends in an error leaves the manifest file as it was     *)
(* before the run: the manifest is written only once make_scenes has       *)
(* returned, i.e. after every input file was extracted without error.      *)
(***************************************************************************)
C2_ManifestOnlyOnSuccess ==
    /\ error # None =>
          /\ Manifest(fs) = Manifest(fs0)
          /\ "data/scenes/scene_ids.yml" \notin WrittenPaths
    /\ "data/scenes/scene_ids.yml" \in WrittenPaths =>
          /\ pc = "done"
          /\ i > Len(Work)

\* a run that wrote a scene file, then failed, with an old manifest in place
C2_Witness ==
    /\ pc = "raised"
    /\ error.type \in {"KeyExistsException", "NotImplementedError", "AttributeError"}
    /\ Len(writes) > 0
    /\ Manifest(fs0) # Absent

(***************************************************************************)
(* C3.  Over a directory with at least one recognized file, whose          *)
(* array-data files all have a scene_id or a time coordinate and whose     *)
(* derived scene identifiers are pairwise distinct, the run ends           *)
(* successfully with the manifest and one scene file per scene written;    *)
(* and a run fails only for a missing input, an unsupported array format   *)
(* or a duplicate scene id.                                                *)
(* Violated: every array-data file with a scene fails at line 73.          *)
(***************************************************************************)
C3_ValidDirectorySucceeds ==
    /\ (/\ Terminated
        /\ Sources # {}
        /\ \A f \in Sources : ~Unsupported(f)
        /\ DistinctIds(Sources))
          => /\ pc = "done"
             /\ error = None
             /\ "data/scenes/scene_ids.yml" \in WrittenPaths
             /\ \A f \in Sources : \A k \in DOMAIN DerivedIds(f) :
                   ScenePathStr(DerivedIds(f)[k]) \in WrittenPaths
    /\ pc = "raised" =>
          error \in {[type |-> "FileNotFoundError", line |-> 101],
                     [type |-> "NotImplementedError", line |-> 65],
                     [type |-> "KeyExistsException", line |-> 26]}

(***************************************************************************)
(* C4.  Extraction writes the scene file before reporting it: every        *)
(* (scene_id, path) pair held by the mapping of a running                  *)
(* _make_netcdf_scenes call, by the aggregate mapping of make_scenes, or   *)
(* by the manifest this run wrote, names scenes/<scene_id>.nc beside the   *)
(* source files, and that file exists and was written during this run.     *)
(***************************************************************************)
C4_ReportedScenesAreWritten ==
    /\ \A scene_id \in DOMAIN scenes : Reported(scene_id, Named(scenes[scene_id]))
    /\ nc # None => \A scene_id \in DOMAIN nc.scenes :
                       Reported(scene_id, Named(nc.scenes[scene_id]))
    /\ "data/scenes/scene_ids.yml" \in WrittenPaths =>
          /\ \A scene_id \in DOMAIN scenes :
                /\ Reported(scene_id, Named(scenes[scene_id]))
                /\ <<scene_id \o ": " \o ScenePathStr(scene_id)>> \in Manifest(fs).entries
          /\ Cardinality(Manifest(fs).entries) = Cardinality(DOMAIN scenes)

\* two image scenes are reported by the aggregate mapping and the manifest
C4_Witness ==
    /\ pc = "done"
    /\ DOMAIN scenes = {"x", "y"}
    /\ fs0 = NoDir

(***************************************************************************)
(* C5.  Over a directory in which no file has one of the extensions png,   *)
(* jpg, jpeg, nc, nc4, make_scenes raises FileNotFoundError (line 101)     *)
(* and nothing has been created or modified on the file system.            *)
(***************************************************************************)
C5_NoInputRaisesBeforeWrites ==
    (pc # "start" /\ Sources = {})
        => /\ pc = "raised"
           /\ error = [type |-> "FileNotFoundError", line |-> 101]
           /\ fs = fs0
           /\ writes = <<>>

\* the No-Input error over a directory that holds a file, beside old output
C5_Witness ==
    /\ pc = "raised"
    /\ error = [type |-> "FileNotFoundError", line |-> 101]
    /\ DOMAIN dir # {}
    /\ fs = OldDir

(***************************************************************************)
(* C6.  For an array-data file with a scene_id coordinate the call of      *)
(* _make_netcdf_scenes does not fail, and once the generator has yielded   *)
(* k values its mapping holds exactly those k values, each with the path   *)
(* scenes/<value>.nc, whose file holds the slice selected at the value.    *)
(* Violated: line 73 raises AttributeError for the first value.            *)
(***************************************************************************)
C6_SceneIdCoordinateYieldsPairs ==
    (nc # None /\ "scene_id" \in DOMAIN nc.da.coords) =>
        /\ error = None
        /\ pc = "nc_next" =>
              /\ DOMAIN nc.scenes = {nc.da.coords["scene_id"][k] : k \in 1..nc.k}
              /\ \A v \in DOMAIN nc.scenes :
                    /\ str(nc.scenes[v]) = ScenePathStr(v)
                    /\ FileAt(fs, ScenePathStr(v)) = sel(nc.da, "scene_id", v)

(***************************************************************************)
(* C7.  A directory that holds an array-data file with neither a scene_id  *)
(* nor a time coordinate, all its other files being valid inputs with      *)
(* pairwise distinct scene identifiers, makes the run fail with            *)
(* NotImplementedError, the manifest not written.                          *)
(* Violated: a valid array-data file visited first fails at line 73.       *)
(***************************************************************************)
C7_UnsupportedFormatAbortsRun ==
    (/\ Terminated
     /\ \E f \in Sources : Unsupported(f)
     /\ DistinctIds(Sources))
        => /\ pc = "raised"
           /\ error = [type |-> "NotImplementedError", line |-> 65]
           /\ "data/scenes/scene_ids.yml" \notin WrittenPaths

(***************************************************************************)
(* C8.  For an array-data file without a scene_id coordinate and with a    *)
(* time coordinate, every time value yields one scene: its identifier is   *)
(* <stem>__ followed by year (4 digits), day, month, hour, minute (2       *)
(* digits each, the day before the month), its data the slice selected at  *)
(* that time value; time values that agree to the minute get the same      *)
(* identifier.  2021-03-04T05:06 gives <stem>__202104030506.               *)
(***************************************************************************)
C8_TimeSceneIds ==
    /\ (pc = "nc_body" /\ TimeOnly(nc.da.coords)) =>
          LET t == nc.da.coords["time"][nc.k]
          IN /\ nc.cur[1] = TimeSceneId(nc.filepath.stem, t)
             /\ SameMinute(t, T1) => nc.cur[1] = nc.filepath.stem \o "__202104030506"
             /\ nc.cur[2] = [kind |-> "DataArray", source |-> str(nc.filepath),
                             at |-> ("time" :> t)]
    /\ \A f \in {g \in Sources : IsArrayData(g)} :
          TimeOnly(dir[f].coords) =>
             LET times == dir[f].coords["time"]
                 gen == _individual_scenes_in_file(FilePath(f), open_dataarray(FilePath(f)))
             IN /\ ~gen.raises
                /\ Len(gen.items) = Len(times)
                /\ \A k \in DOMAIN times :
                      /\ gen.items[k][1] = TimeSceneId(f.stem, times[k])
                      /\ gen.items[k][2].at = ("time" :> times[k])
                /\ \A j \in DOMAIN times, k \in DOMAIN times :
                      SameMinute(times[j], times[k]) => gen.items[j][1] = gen.items[k][1]

\* the generator has yielded the scene of 05:06:00 of a file that also
\* holds 05:06:30
C8_Witness ==
    /\ pc = "nc_body"
    /\ TimeOnly(nc.da.coords)
    /\ nc.da.coords["time"] = <<T1, T2>>
    /\ nc.cur[1] = "x__202104030506"

(***************************************************************************)
(* C9.  For an image file <stem>.<ext>, _make_image_scene returns the pair *)
(* (<stem>, scenes/<stem>.nc), has the scenes directory exist, and writes  *)
(* to that path the mask whose pixel is true exactly when its greyscale    *)
(* intensity is strictly greater than 0.2; an intensity of 0.2 is false.   *)
(***************************************************************************)
C9_ImageScene ==
    \A k \in ImageWrites :
        LET f == SourceOf(k)
            path == writes[k].path
        IN /\ path = ScenePathStr(f.stem)
           /\ "data/scenes" \in fs.dirs
           /\ (\A j \in DOMAIN writes : j > k => writes[j].path # path) =>
                 /\ FileAt(fs, path).kind = "DataArray"
                 /\ FileAt(fs, path).values =
                       [n \in 1..Len(dir[f].pixels) |-> Brighter(dir[f].pixels[n])]
           /\ (k < Len(writes) \/ error.type # "KeyExistsException") =>
                 /\ f.stem \in DOMAIN scenes
                 /\ Named(scenes[f.stem]) = path

\* a pixel of intensity exactly 0.2 gave false, a brighter one true
C9_Witness ==
    /\ pc = "done"
    /\ fs0 = NoDir
    /\ [stem |-> "x", ext |-> "png"] \in DOMAIN dir
    /\ [stem |-> "y", ext |-> "png"] \in DOMAIN dir
    /\ dir[[stem |-> "x", ext |-> "png"]].pixels = <<(<<51, 51, 51>>)>>
    /\ dir[[stem |-> "y", ext |-> "png"]].pixels = <<(<<255, 0, 0>>)>>
    /\ FileAt(fs, "data/scenes/x.nc").values = <<FALSE>>
    /\ FileAt(fs, "data/scenes/y.nc").values = <<TRUE>>

(***************************************************************************)
(* C10.  Within one run every scene file is written at most once, so a     *)
(* scene-identifier collision never overwrites scene data on disk.         *)
(* Violated: _make_image_scene writes scenes/<stem>.nc before make_scenes  *)
(* tries the insert that detects the collision.                            *)
(***************************************************************************)
C10_SceneFileWrittenOnce ==
    \A j \in DOMAIN writes, k \in DOMAIN writes : j # k => writes[j].path # writes[k].path

====
